---- MODULE Spec2Model ----
(***************************************************************************)
(* A model of regpath.py: RegPath, a path object over the Windows registry *)
(* (module winreg), the hive singletons registered at module load, and the *)
(* value type inference _normalize_type.                                   *)
(*                                                                         *)
(* Specifications:                                                         *)
(*   TypeSpec  - _normalize_type applied to one (typ, value) input         *)
(*   NewSpec   - RegPath.__new__ applied to one (parts, remote_host) input *)
(*   Spec      - path objects operating on a registry that answers every   *)
(*               call according to its contents                            *)
(*   FaultSpec - Spec, and the registry may also fail a CloseKey call      *)
(***************************************************************************)
EXTENDS Integers, Sequences, FiniteSets, TLC

VARIABLES
    objs,       \* the heap of RegPath objects: oid -> [parts, remote_host, key] or NoObj
    keys,       \* the registry's sub-keys: a set of [host, path]; hive roots always exist
    vals,       \* the registry's values: a set of [host, path, name, typ, data]
    handles,    \* the registry's open handles: handle id -> [host, path, access, dead]
    call,       \* the call being made (pure functions) or the last call made (Spec)
    ret,        \* what that call returned or raised
    trail       \* how far the calls made so far follow exists, mkdir, exists, rmdir, exists

vars == <<objs, keys, vals, handles, call, ret, trail>>

(***************************************************************************)
(* Python values.  An int is arbitrary precision: a sign and a magnitude   *)
(* in limbs of 16 bits, least significant first, without leading zeros.    *)
(***************************************************************************)
LimbBase == 2^16

MaxLimb == LimbBase - 1

Nat2Int(n) ==
    [neg |-> FALSE, mag |-> IF n = 0 THEN <<>> ELSE <<n>>]

PyNone == [k |-> "none", s |-> "", n |-> Nat2Int(0), items |-> <<>>]

PyStr(s) == [k |-> "str", s |-> s, n |-> Nat2Int(0), items |-> <<>>]

PyInt(n) == [k |-> "int", s |-> "", n |-> n, items |-> <<>>]

PyFloat == [k |-> "float", s |-> "", n |-> Nat2Int(0), items |-> <<>>]

\* a list; its items are Python values
PyList(items) == [k |-> "list", s |-> "", n |-> Nat2Int(0), items |-> items]

isinstance(v, cls) == v.k = cls

\* hasattr(value, '__iter__'): str and list are iterable, None, int and float are not
has_iter(v) == v.k \in {"str", "list"}

RECURSIVE MagInc(_)
MagInc(m) ==
    IF m = <<>> THEN <<1>>
    ELSE IF Head(m) < MaxLimb THEN <<Head(m) + 1>> \o Tail(m)
    ELSE <<0>> \o MagInc(Tail(m))

RECURSIVE MagDec(_)
\* m - 1 for a magnitude m > 0
MagDec(m) ==
    IF Head(m) > 0
    THEN (IF Len(m) = 1 /\ Head(m) = 1 THEN <<>> ELSE <<Head(m) - 1>> \o Tail(m))
    ELSE <<MaxLimb>> \o MagDec(Tail(m))

IntInc(a) ==
    IF a.neg
    THEN (LET m == MagDec(a.mag) IN [neg |-> m # <<>>, mag |-> m])
    ELSE [neg |-> FALSE, mag |-> MagInc(a.mag)]

IntDec(a) ==
    IF a.neg THEN [neg |-> TRUE, mag |-> MagInc(a.mag)]
    ELSE IF a.mag = <<>> THEN [neg |-> TRUE, mag |-> <<1>>]
    ELSE [neg |-> FALSE, mag |-> MagDec(a.mag)]

RECURSIVE IntPlus(_, _)
\* a + d for a small d
IntPlus(a, d) ==
    IF d = 0 THEN a
    ELSE IF d > 0 THEN IntPlus(IntInc(a), d - 1)
    ELSE IntPlus(IntDec(a), d + 1)

RECURSIVE MagLess(_, _)
MagLess(x, y) ==
    IF Len(x) # Len(y) THEN Len(x) < Len(y)
    ELSE IF x = <<>> THEN FALSE
    ELSE IF x[Len(x)] # y[Len(y)] THEN x[Len(x)] < y[Len(y)]
    ELSE MagLess(SubSeq(x, 1, Len(x) - 1), SubSeq(y, 1, Len(y) - 1))

\* a < b on Python ints
IntLess(a, b) ==
    IF a.neg /\ ~b.neg THEN TRUE
    ELSE IF ~a.neg /\ b.neg THEN FALSE
    ELSE IF a.neg THEN MagLess(b.mag, a.mag)
    ELSE MagLess(a.mag, b.mag)

(***************************************************************************)
(* What a call returns or raises.                                          *)
(***************************************************************************)
Pending == [ok |-> FALSE, val |-> PyNone, exc |-> "pending", winerror |-> 0]

Ret(v) == [ok |-> TRUE, val |-> v, exc |-> "", winerror |-> 0]

Raise(e) == [ok |-> FALSE, val |-> PyNone, exc |-> e, winerror |-> 0]

\* OSError with its winerror code
OSError(code) == [ok |-> FALSE, val |-> PyNone, exc |-> "OSError", winerror |-> code]

(***************************************************************************)
(* class Type(enum.IntEnum): the winreg REG_* codes by member name.        *)
(***************************************************************************)
Type ==
    [BINARY |-> 3, DWORD |-> 4, DWORD_LITTLE_ENDIAN |-> 4, DWORD_BIG_ENDIAN |-> 5,
     EXPAND_SZ |-> 2, LINK |-> 6, MULTI_SZ |-> 7, NONE |-> 0,
     QWORD |-> 11, QWORD_LITTLE_ENDIAN |-> 11, SZ |-> 1,
     RESOURCE_LIST |-> 8, FULL_RESOURCE_DESCRIPTOR |-> 9,
     RESOURCE_REQUIREMENTS_LIST |-> 10]

\* Type[name]: the member as an int, or KeyError
TypeByName(name) ==
    IF name \in DOMAIN Type THEN Ret(PyInt(Nat2Int(Type[name]))) ELSE Raise("KeyError")

\* the literals of _normalize_type
Lit_8000_0000 == [neg |-> FALSE, mag |-> <<0, 2^15>>]

Lit_ffff_ffff == [neg |-> FALSE, mag |-> <<MaxLimb, MaxLimb>>]

Lit_8000_0000_0000_0000 == [neg |-> FALSE, mag |-> <<0, 0, 0, 2^15>>]

Lit_ffff_ffff_ffff_ffff == [neg |-> FALSE, mag |-> <<MaxLimb, MaxLimb, MaxLimb, MaxLimb>>]

IntNeg(a) == [neg |-> a.mag # <<>> /\ ~a.neg, mag |-> a.mag]

\* -0x8000_0000 < value <= 0xffff_ffff: the off-by-one a closed upper bound gives
InDwordRangeClosed(v) ==
    IntLess(IntNeg(Lit_8000_0000), v) /\ ~IntLess(Lit_ffff_ffff, v)

\* -0x8000_0000 < value < 0xffff_ffff
InDwordRange(v) ==
    IntLess(IntNeg(Lit_8000_0000), v) /\ IntLess(v, Lit_ffff_ffff)

\* -0x8000_0000_0000_0000 < value < 0xffff_ffff_ffff_ffff
InQwordRange(v) ==
    IntLess(IntNeg(Lit_8000_0000_0000_0000), v) /\ IntLess(v, Lit_ffff_ffff_ffff_ffff)

\* all((isinstance(i, str) for i in value)); the items of a str are strs
AllStr(v) ==
    \A i \in 1..Len(v.items) : isinstance(v.items[i], "str")

\* the hint returned without looking at its kind
HintFallthroughAny(typ) ==
    IF isinstance(typ, "str") THEN TypeByName(typ.s) ELSE Ret(typ)

\* lines 84-89: what is reached when no inference rule returned
HintFallthrough(typ) ==
    IF isinstance(typ, "int") THEN Ret(typ)
    ELSE IF isinstance(typ, "str") THEN TypeByName(typ.s)
    ELSE Raise("RuntimeError")

TypeTag(name) == PyInt(Nat2Int(Type[name]))

_normalize_type(typ, value) ==
    IF typ = PyNone
    THEN IF isinstance(value, "str") THEN Ret(TypeTag("SZ"))
         ELSE IF value = PyNone THEN Ret(TypeTag("NONE"))
         ELSE IF isinstance(value, "int")
              THEN (IF InDwordRange(value.n) THEN Ret(TypeTag("DWORD"))
                    ELSE IF InQwordRange(value.n) THEN Ret(TypeTag("QWORD"))
                    ELSE HintFallthrough(typ))
         ELSE IF has_iter(value) /\ AllStr(value) THEN Ret(TypeTag("MULTI_SZ"))
         ELSE HintFallthrough(typ)
    ELSE HintFallthrough(typ)

(***************************************************************************)
(* Paths.  A path string is a sequence of pieces: the separator, or a run  *)
(* of text without a separator; a component is a string.                   *)
(***************************************************************************)
Sep == "\\"

\* remote_host is None
NoHost == "<None>"

RECURSIVE SplitFrom(_, _, _)
SplitFrom(s, i, cur) ==
    IF i > Len(s) THEN <<cur>>
    ELSE IF s[i] = Sep THEN <<cur>> \o SplitFrom(s, i + 1, "")
    ELSE SplitFrom(s, i + 1, cur \o s[i])

\* s.split('\\'): never empty, '' splits into ['']
Split(s) == SplitFrom(s, 1, "")

RECURSIVE Join(_)
\* '\\'.join(parts)
Join(parts) ==
    IF parts = <<>> THEN <<>>
    ELSE IF Len(parts) = 1 THEN (IF parts[1] = "" THEN <<>> ELSE <<parts[1]>>)
    ELSE (IF parts[1] = "" THEN <<>> ELSE <<parts[1]>>) \o <<Sep>> \o Join(Tail(parts))

(***************************************************************************)
(* The hive tables of lines 362-390.                                       *)
(***************************************************************************)
HiveOrder ==
    <<"HKEY_CLASSES_ROOT", "HKEY_CURRENT_CONFIG", "HKEY_CURRENT_USER",
      "HKEY_LOCAL_MACHINE", "HKEY_USERS", "HKEY_DYN_DATA", "HKEY_PERFORMANCE_DATA">>

AliasOrder == <<"HKCR", "HKCC", "HKCU", "HKLM", "HKU", "HKDD", "HKPD">>

HiveNames == {HiveOrder[i] : i \in DOMAIN HiveOrder}

HiveAliases == {AliasOrder[i] : i \in DOMAIN AliasOrder}

NoKey == [t |-> "none", hive |-> "", id |-> 0]

\* a predefined root handle winreg.HKEY_*
PredefKey(name) == [t |-> "hkey", hive |-> name, id |-> 0]

\* a handle the registry handed out
DynKey(id) == [t |-> "h", hive |-> "", id |-> id]

_HIVES == [n \in HiveNames |-> PredefKey(n)]

HK_ALIASES ==
    [a \in HiveAliases |-> HiveOrder[CHOOSE i \in DOMAIN AliasOrder : AliasOrder[i] = a]]

\* HK_ALIASES.get(p, p)
AliasGet(p) == IF p \in DOMAIN HK_ALIASES THEN HK_ALIASES[p] ELSE p

\* _CACHE: a WeakValueDictionary that __new__ reads; no statement stores into it
_CACHE == [k \in {} |-> 0]

\* _CACHE.get((remote_host, parts))
CacheGet(remote_host, parts) ==
    IF <<remote_host, parts>> \in DOMAIN _CACHE THEN _CACHE[<<remote_host, parts>>] ELSE 0

(***************************************************************************)
(* RegPath.__new__.  An input is [isstr, seq]: a string (its pieces) or a  *)
(* sequence of components.  The result names an object of the heap (oid)   *)
(* or is a new object (fresh, with its fields in obj).                     *)
(***************************************************************************)
StrIn(pieces) == [isstr |-> TRUE, seq |-> pieces]

SeqIn(comps) == [isstr |-> FALSE, seq |-> comps]

NoObj == [parts |-> <<>>, remote_host |-> NoHost, key |-> NoKey]

Found(oid, obj) == [res |-> Ret(oid), fresh |-> FALSE, oid |-> oid, obj |-> obj]

Fresh(obj) == [res |-> Ret(0), fresh |-> TRUE, oid |-> 0, obj |-> obj]

NewFails(e) == [res |-> Raise(e), fresh |-> FALSE, oid |-> 0, obj |-> NoObj]

\* lines 100, 108: the two shapes of a split string
IsUNC(parts) == Len(parts) >= 3 /\ parts[1] = "" /\ parts[2] = ""

LeadsEmpty(parts) == parts # <<>> /\ parts[1] = ""

\* lines 97-112: the components and the remote host of a string
ParseStr(s, remote_host) ==
    LET Stripped(rest, host) ==
            IF rest = <<>>
            THEN [exc |-> "RuntimeError", parts |-> <<>>, host |-> host]
            ELSE [exc |-> "", parts |-> rest, host |-> host]
        Parsed(parts) ==
            IF IsUNC(parts) /\ remote_host # NoHost
            THEN [exc |-> "ValueError", parts |-> <<>>, host |-> remote_host]
            ELSE IF IsUNC(parts)
            THEN Stripped(SubSeq(parts, 4, Len(parts)), Sep \o Sep \o parts[3])
            ELSE IF LeadsEmpty(parts) THEN Stripped(Tail(parts), remote_host)
            ELSE Stripped(parts, remote_host)
    IN Parsed(Split(s))

\* lines 121-129: the cache lookup and the construction
NewObject(H, heap, parts, remote_host) ==
    IF CacheGet(remote_host, parts) # 0
    THEN Found(CacheGet(remote_host, parts), heap[CacheGet(remote_host, parts)])
    ELSE IF Len(parts) = 1 /\ remote_host = NoHost
    THEN IF parts[1] \in DOMAIN _HIVES
         THEN Fresh([parts |-> parts, remote_host |-> remote_host, key |-> _HIVES[parts[1]]])
         ELSE NewFails("KeyError")
    ELSE Fresh([parts |-> parts, remote_host |-> remote_host, key |-> NoKey])

\* lines 116-119 skipped: a bare hive name builds a new object like any path
CanonNoRegistry(H, heap, parts0, remote_host) ==
    IF parts0 = <<>> THEN NewFails("IndexError")
    ELSE NewObject(H, heap, <<AliasGet(parts0[1])>> \o Tail(parts0), remote_host)

\* lines 114-129: alias, hive registry, cache, construction
Canon(H, heap, parts0, remote_host) ==
    LET Aliased(parts) ==
            IF Len(parts) = 1 /\ remote_host = NoHost /\ parts[1] \in DOMAIN H
            THEN Found(H[parts[1]], heap[H[parts[1]]])
            ELSE NewObject(H, heap, parts, remote_host)
    IN IF parts0 = <<>> THEN NewFails("IndexError")
       ELSE Aliased(<<AliasGet(parts0[1])>> \o Tail(parts0))

\* RegPath(parts, remote_host) with the hive registry H and the heap as they are
New(H, heap, in, remote_host) ==
    LET Parsed(p) ==
            IF p.exc # "" THEN NewFails(p.exc) ELSE Canon(H, heap, p.parts, p.host)
    IN IF in.isstr THEN Parsed(ParseStr(in.seq, remote_host))
       ELSE Canon(H, heap, in.seq, remote_host)

(***************************************************************************)
(* Module load, lines 383-390: HIVES starts empty and each hive is built   *)
(* by RegPath(name) and stored under its name and its alias.               *)
(***************************************************************************)
RECURSIVE Load(_)
Load(i) ==
    LET Stored(prev, made, oid) ==
            [hives |-> [k \in DOMAIN prev.hives \cup {HiveOrder[i], AliasOrder[i]} |->
                           IF k \in {HiveOrder[i], AliasOrder[i]} THEN oid ELSE prev.hives[k]],
             heap  |-> [o \in DOMAIN prev.heap \cup {oid} |->
                           IF o = oid /\ made.fresh THEN made.obj ELSE prev.heap[o]]]
        Made(prev, made) == Stored(prev, made, IF made.fresh THEN i ELSE made.oid)
        Loaded(prev) ==
            Made(prev, New(prev.hives, prev.heap, StrIn(<<HiveOrder[i]>>), NoHost))
    IN IF i = 0 THEN [hives |-> [k \in {} |-> 0], heap |-> [k \in {} |-> NoObj]]
       ELSE Loaded(Load(i - 1))

HIVES == Load(Len(HiveOrder)).hives

InitObjs == Load(Len(HiveOrder)).heap

(***************************************************************************)
(* The registry behind winreg.  A world w is [keys, vals, handles, ovf,    *)
(* closeFails, log]: the store, the open handles, whether a handle was     *)
(* asked for beyond MaxHandles, whether CloseKey fails during this call,   *)
(* and the winreg functions called so far.  Every function returns         *)
(* [w, res].                                                               *)
(***************************************************************************)
MaxHandles == 5

\* Access.READ = winreg.KEY_READ, and the rights of a root handle
READ == {"QUERY_VALUE", "ENUMERATE_SUB_KEYS", "NOTIFY"}

ALL_ACCESS == READ \cup {"SET_VALUE", "CREATE_SUB_KEY", "CREATE_LINK"}

\* the hosts that answer ConnectRegistry
RemoteHosts == {Sep \o Sep \o "srv"}

\* the order in which the registry enumerates names
NameOrder == <<"a", "b", "c", "v", "v1", "v2", "v3">>

World(k, v, h, f) ==
    [keys |-> k, vals |-> v, handles |-> h, ovf |-> FALSE, closeFails |-> f, log |-> {}]

Out(w, res) == [w |-> w, res |-> res]

NonEmpty(c) == c # ""

\* the components a sub-key string names
SubPath(sub) == SelectSeq(Split(sub), NonEmpty)

KeyAt(host, path) == [host |-> host, path |-> path]

KeyExists(w, host, path) ==
    \/ Len(path) = 1 /\ path[1] \in HiveNames
    \/ KeyAt(host, path) \in w.keys

IsPrefix(p, q) == Len(p) <= Len(q) /\ SubSeq(q, 1, Len(p)) = p

ChildNames(w, host, path) ==
    {k.path[Len(path) + 1] :
        k \in {x \in w.keys : x.host = host /\ Len(x.path) = Len(path) + 1
                               /\ IsPrefix(path, x.path)}}

ValueNames(w, host, path) ==
    {v.name : v \in {x \in w.vals : x.host = host /\ x.path = path}}

InOrder(S) ==
    LET Member(n) == n \in S IN SelectSeq(NameOrder, Member)

ValidKey(w, key) ==
    key.t = "hkey" \/ (key.t = "h" /\ key.id \in DOMAIN w.handles)

HInfo(w, key) ==
    IF key.t = "hkey"
    THEN [host |-> NoHost, path |-> <<key.hive>>, access |-> ALL_ACCESS, dead |-> FALSE]
    ELSE w.handles[key.id]

\* what every call checks of its handle first: 6 invalid handle, 1018 key deleted,
\* 5 access denied; 0 when the call may go on
Refused(w, key, right) ==
    IF ~ValidKey(w, key) THEN 6
    ELSE IF HInfo(w, key).dead THEN 1018
    ELSE IF right # "" /\ right \notin HInfo(w, key).access THEN 5
    ELSE 0

FreeIds(w) == {i \in 1..MaxHandles : i \notin DOMAIN w.handles}

\* a new handle, the lowest free id
Alloc(w, info) ==
    IF FreeIds(w) = {} THEN Out([w EXCEPT !.ovf = TRUE], Ret(DynKey(0)))
    ELSE LET id == CHOOSE i \in FreeIds(w) : \A j \in FreeIds(w) : i <= j IN
         Out([w EXCEPT !.handles = [h \in DOMAIN w.handles \cup {id} |->
                                       IF h = id THEN info ELSE w.handles[h]]],
             Ret(DynKey(id)))

HandleOn(host, path, access) ==
    [host |-> host, path |-> path, access |-> access, dead |-> FALSE]

Logged(w, method) == [w EXCEPT !.log = @ \cup {method}]

ConnectRegistry(w, host, hkey) ==
    IF host \notin RemoteHosts THEN Out(Logged(w, "ConnectRegistry"), OSError(53))
    ELSE Alloc(Logged(w, "ConnectRegistry"), HandleOn(host, <<hkey.hive>>, ALL_ACCESS))

OpenKeyEx(w, key, sub, access) ==
    LET At(host, target) ==
            IF ~KeyExists(w, host, target) THEN Out(w, OSError(2))
            ELSE Alloc(w, HandleOn(host, target, access))
    IN IF Refused(w, key, "") # 0 THEN Out(w, OSError(Refused(w, key, "")))
       ELSE At(HInfo(w, key).host, HInfo(w, key).path \o SubPath(sub))

\* creates the key and the missing keys above it; opens it when it exists
CreateKeyEx(w, key, sub, access) ==
    LET Made(info, target, missing) ==
            IF missing # {} /\ "CREATE_SUB_KEY" \notin info.access THEN Out(w, OSError(5))
            ELSE Alloc([w EXCEPT !.keys = @ \cup missing],
                       HandleOn(info.host, target, access))
        At(info, target) ==
            Made(info, target,
                 {KeyAt(info.host, SubSeq(target, 1, n)) : n \in 2..Len(target)} \ w.keys)
    IN IF Refused(w, key, "") # 0 THEN Out(w, OSError(Refused(w, key, "")))
       ELSE At(HInfo(w, key), HInfo(w, key).path \o SubPath(sub))

CloseKey(w, key) ==
    IF w.closeFails THEN Out(w, OSError(6))
    ELSE IF key.t # "h" THEN Out(w, Ret(PyNone))
    ELSE Out([w EXCEPT !.handles = [h \in DOMAIN w.handles \ {key.id} |-> w.handles[h]]],
             Ret(PyNone))

\* deletes a key without sub-keys, with its values; the handles open on it go dead
DeleteKey(w, key, sub) ==
    LET At(host, target) ==
            IF KeyAt(host, target) \notin w.keys THEN Out(w, OSError(2))
            ELSE IF ChildNames(w, host, target) # {} THEN Out(w, OSError(5))
            ELSE Out([w EXCEPT
                        !.keys = @ \ {KeyAt(host, target)},
                        !.vals = {v \in @ : ~(v.host = host /\ v.path = target)},
                        !.handles = [h \in DOMAIN @ |->
                            IF @[h].host = host /\ @[h].path = target
                            THEN [@[h] EXCEPT !.dead = TRUE] ELSE @[h]]],
                     Ret(PyNone))
    IN IF Refused(w, key, "") # 0 THEN Out(w, OSError(Refused(w, key, "")))
       ELSE At(HInfo(w, key).host, HInfo(w, key).path \o SubPath(sub))

\* (sub-key count, value count); the code drops the third, the last write time
QueryInfoKey(w, key) ==
    IF Refused(w, key, "QUERY_VALUE") # 0 THEN Out(w, OSError(Refused(w, key, "QUERY_VALUE")))
    ELSE LET info == HInfo(w, key) IN
         Out(w, Ret([cc |-> Cardinality(ChildNames(w, info.host, info.path)),
                     vc |-> Cardinality(ValueNames(w, info.host, info.path))]))

EnumKey(w, key, i) ==
    IF Refused(w, key, "ENUMERATE_SUB_KEYS") # 0
    THEN Out(w, OSError(Refused(w, key, "ENUMERATE_SUB_KEYS")))
    ELSE LET Nth(names) ==
                 IF i >= Len(names) THEN Out(w, OSError(259)) ELSE Out(w, Ret(names[i + 1]))
         IN Nth(InOrder(ChildNames(w, HInfo(w, key).host, HInfo(w, key).path)))

ValueOf(w, host, path, name) ==
    CHOOSE v \in w.vals : v.host = host /\ v.path = path /\ v.name = name

\* the Python value winreg builds from stored data
Reg2Py(data, typ) ==
    IF typ \in {1, 2, 4, 7, 11} THEN data
    ELSE IF data.k = "bytes0" THEN PyNone ELSE data

\* the data winreg stores for a Python value, or the error it raises
Py2Reg(value, typ) ==
    IF typ = 4
    THEN (IF value = PyNone THEN Ret(PyInt(Nat2Int(0)))
          ELSE IF ~isinstance(value, "int") THEN Raise("ValueError")
          ELSE IF value.n.neg \/ IntLess(Lit_ffff_ffff, value.n) THEN Raise("OverflowError")
          ELSE Ret(value))
    ELSE IF typ = 11
    THEN (IF value = PyNone THEN Ret(PyInt(Nat2Int(0)))
          ELSE IF ~isinstance(value, "int") THEN Raise("ValueError")
          ELSE IF value.n.neg \/ IntLess(Lit_ffff_ffff_ffff_ffff, value.n)
               THEN Raise("OverflowError")
          ELSE Ret(value))
    ELSE IF typ \in {1, 2}
    THEN (IF value = PyNone THEN Ret(PyStr(""))
          ELSE IF isinstance(value, "str") THEN Ret(value)
          ELSE Raise("ValueError"))
    ELSE IF typ = 7
    THEN (IF value = PyNone THEN Ret(PyList(<<>>))
          ELSE IF isinstance(value, "list") /\ AllStr(value) THEN Ret(value)
          ELSE Raise("ValueError"))
    ELSE IF value = PyNone THEN Ret([PyNone EXCEPT !.k = "bytes0"])
    ELSE Raise("TypeError")

\* the type tag as the registry stores it; tags beyond one limb are refused
TagOf(typ) ==
    IF typ.n.mag = <<>> THEN 0 ELSE typ.n.mag[1]

SetValueEx(w, key, name, typ, value) ==
    IF Refused(w, key, "SET_VALUE") # 0 THEN Out(w, OSError(Refused(w, key, "SET_VALUE")))
    ELSE IF ~isinstance(typ, "int") \/ typ.n.neg \/ Len(typ.n.mag) > 1
    THEN Out(w, Raise("OverflowError"))
    ELSE LET Stored(info, data) ==
                 IF ~data.ok THEN Out(w, data)
                 ELSE Out([w EXCEPT !.vals =
                             {v \in @ : ~(v.host = info.host /\ v.path = info.path
                                           /\ v.name = name)}
                             \cup {[host |-> info.host, path |-> info.path, name |-> name,
                                    typ |-> TagOf(typ), data |-> data.val]}],
                          Ret(PyNone))
         IN Stored(HInfo(w, key), Py2Reg(value, TagOf(typ)))

\* (data, type)
QueryValueEx(w, key, name) ==
    IF Refused(w, key, "QUERY_VALUE") # 0 THEN Out(w, OSError(Refused(w, key, "QUERY_VALUE")))
    ELSE LET Read(v) == Out(w, Ret(<<Reg2Py(v.data, v.typ), v.typ>>))
             On(info) ==
                 IF name \notin ValueNames(w, info.host, info.path) THEN Out(w, OSError(2))
                 ELSE Read(ValueOf(w, info.host, info.path, name))
         IN On(HInfo(w, key))

DeleteValue(w, key, name) ==
    IF Refused(w, key, "SET_VALUE") # 0 THEN Out(w, OSError(Refused(w, key, "SET_VALUE")))
    ELSE LET On(info) ==
                 IF name \notin ValueNames(w, info.host, info.path) THEN Out(w, OSError(2))
                 ELSE Out([w EXCEPT !.vals =
                             {v \in @ : ~(v.host = info.host /\ v.path = info.path
                                           /\ v.name = name)}],
                          Ret(PyNone))
         IN On(HInfo(w, key))

\* getattr(winreg, method)(key, *args)
Api(w0, key, method, args) ==
    LET w == Logged(w0, method) IN
    CASE method = "OpenKeyEx"    -> OpenKeyEx(w, key, args[1], args[3])
      [] method = "CreateKeyEx"  -> CreateKeyEx(w, key, args[1], args[3])
      [] method = "CloseKey"     -> CloseKey(w, key)
      [] method = "DeleteKey"    -> DeleteKey(w, key, args[1])
      [] method = "QueryInfoKey" -> QueryInfoKey(w, key)
      [] method = "EnumKey"      -> EnumKey(w, key, args[1])
      [] method = "SetValueEx"   -> SetValueEx(w, key, args[1], args[3], args[4])
      [] method = "QueryValueEx" -> QueryValueEx(w, key, args[1])
      [] method = "DeleteValue"  -> DeleteValue(w, key, args[1])

(***************************************************************************)
(* The methods of RegPath on an object o = [parts, remote_host, key], with *)
(* the heap (read for the hive singletons) and the world.  Each returns    *)
(* [w, o, res]: the world and the object after the call, and its result.   *)
(***************************************************************************)
Step(w, o, res) == [w |-> w, o |-> o, res |-> res]

is_remote(o) == o.remote_host # NoHost

is_hive(o) == Len(o.parts) = 1

is_opened(o) == o.key # NoKey

\* self.hive._invoke_api(method, *args): the hive singleton is open, so its open()
\* returns at once; were it not, open() would call itself without end
HiveInvoke(heap, w, o, method, args) ==
    IF o.parts[1] \notin DOMAIN HIVES THEN Out(w, Raise("KeyError"))
    ELSE IF ~is_opened(heap[HIVES[o.parts[1]]]) THEN Out(w, Raise("RecursionError"))
    ELSE Api(w, heap[HIVES[o.parts[1]]].key, method, args)

\* '\\'.join(self.parts[1:]), 0, Access.READ
OpenArgs(o) == <<Join(Tail(o.parts)), 0, READ>>

\* self.key = <what the registry call r gave>; an error of the call leaves self.key
SetKey(o, r) ==
    IF r.res.ok THEN Step(r.w, [o EXCEPT !.key = r.res.val], Ret(PyNone))
    ELSE Step(r.w, o, r.res)

\* lines 144-147, after hive_key = ConnectRegistry(...) gave c
open_connected(o, c) ==
    IF ~c.res.ok THEN Step(c.w, o, c.res)
    ELSE IF is_hive(o) THEN Step(c.w, [o EXCEPT !.key = c.res.val], Ret(PyNone))
    ELSE SetKey(o, Api(c.w, c.res.val, "OpenKeyEx", OpenArgs(o)))

open(heap, w, o) ==
    IF is_opened(o) THEN Step(w, o, Ret(PyNone))
    ELSE IF is_remote(o)
    THEN IF o.parts[1] \notin DOMAIN _HIVES THEN Step(w, o, Raise("KeyError"))
         ELSE open_connected(o, ConnectRegistry(w, o.remote_host, _HIVES[o.parts[1]]))
    ELSE SetKey(o, HiveInvoke(heap, w, o, "OpenKeyEx", OpenArgs(o)))

\* the result a of a registry call made on the object of r
OnObject(r, a) == Step(a.w, r.o, a.res)

\* line 133, after self.open() ended as r
_invoke_api_opened(r, method, args) ==
    IF ~r.res.ok THEN r ELSE OnObject(r, Api(r.w, r.o.key, method, args))

_invoke_api(heap, w, o, method, args) ==
    _invoke_api_opened(open(heap, w, o), method, args)

\* lines 154-158, after self._invoke_api('CloseKey') ended as r
close_invoked(r) ==
    IF r.res.ok THEN Step(r.w, [r.o EXCEPT !.key = NoKey], Ret(PyNone))
    ELSE IF r.res.exc = "OSError" THEN Step(r.w, r.o, Ret(PyNone))
    ELSE r

close(heap, w, o) ==
    IF is_opened(o) /\ (~is_hive(o) \/ is_remote(o))
    THEN close_invoked(_invoke_api(heap, w, o, "CloseKey", <<>>))
    ELSE Step(w, o, Ret(PyNone))

\* self / other
truediv(heap, o, other) == New(HIVES, heap, SeqIn(o.parts \o Split(other)), o.remote_host)

\* self.parent
parent(heap, o) ==
    New(HIVES, heap, SeqIn(SubSeq(o.parts, 1, Len(o.parts) - 1)), o.remote_host)

name(o) == o.parts[Len(o.parts)]

\* except OSError: return False, whatever its winerror
AnyErrorAbsent(r) ==
    IF r.res.ok THEN Step(r.w, r.o, Ret(TRUE))
    ELSE IF r.res.exc = "OSError" THEN Step(r.w, r.o, Ret(FALSE))
    ELSE r

\* lines 229-236, after self.open() ended as r
exists_opened(r) ==
    IF r.res.ok THEN Step(r.w, r.o, Ret(TRUE))
    ELSE IF r.res.exc = "OSError" /\ r.res.winerror = 2 THEN Step(r.w, r.o, Ret(FALSE))
    ELSE r

\* exists() that takes every OSError of open() for "not found"
existsAnyError(heap, w, o) ==
    IF is_opened(o) THEN Step(w, o, Ret(TRUE)) ELSE AnyErrorAbsent(open(heap, w, o))

exists(heap, w, o) ==
    IF is_opened(o) THEN Step(w, o, Ret(TRUE)) ELSE exists_opened(open(heap, w, o))

\* a call on another object, which is dropped after the call: its result, for o
OnOther(o, x) == Step(x.w, o, x.res)

\* self.parent.exists(), where self.parent gave p
parent_exists(heap, w, o, p) ==
    IF ~p.res.ok THEN Step(w, o, p.res) ELSE OnOther(o, exists(heap, w, p.obj))

\* line 245
mkdir_create(heap, w, o) == SetKey(o, HiveInvoke(heap, w, o, "CreateKeyEx", OpenArgs(o)))

\* lines 242-245, after the parent check ended as pe
mkdir_parent_checked(heap, pe, parents) ==
    IF ~pe.res.ok THEN pe
    ELSE IF ~parents /\ ~pe.res.val
    THEN Step(pe.w, pe.o, Raise("ValueError: Parent not exists"))
    ELSE mkdir_create(heap, pe.w, pe.o)

\* lines 239-245, after the existence check ended as e
mkdir_checked(heap, e, parents, exist_ok) ==
    IF ~e.res.ok THEN e
    ELSE IF ~exist_ok /\ e.res.val
    THEN Step(e.w, e.o, Raise("ValueError: Already exists"))
    ELSE mkdir_parent_checked(heap,
             IF ~parents THEN parent_exists(heap, e.w, e.o, parent(heap, e.o))
             ELSE Step(e.w, e.o, Ret(TRUE)),
             parents)

\* mkdir that creates the key before it checks anything
mkdirUnchecked(heap, w, o, parents, exist_ok) == mkdir_create(heap, w, o)

mkdir(heap, w, o, parents, exist_ok) ==
    mkdir_checked(heap, IF ~exist_ok THEN exists(heap, w, o) ELSE Step(w, o, Ret(FALSE)),
                  parents, exist_ok)

delete_child(heap, w, o, child) ==
    _invoke_api(heap, w, o, "DeleteKey", <<Join(<<child>>)>>)

\* line 263: self.parent.delete_child(self.name), where self.parent gave p
parent_delete_child(heap, w, o, p) ==
    IF ~p.res.ok THEN Step(w, o, p.res)
    ELSE OnOther(o, delete_child(heap, w, p.obj, name(o)))

\* line 263, after self.close() ended as c
rmdir_closed(heap, c) ==
    IF ~c.res.ok THEN c ELSE parent_delete_child(heap, c.w, c.o, parent(heap, c.o))

rmdir(heap, w, o) == rmdir_closed(heap, close(heap, w, o))

delete_value(heap, w, o, vname) ==
    _invoke_api(heap, w, o, "DeleteValue", <<vname>>)

RECURSIVE clear(_, _, _)
RECURSIVE rmtree(_, _, _)
RECURSIVE ClearKeys(_, _, _, _, _)
RECURSIVE ClearValues(_, _, _, _, _)

\* the loop of lines 249-251 goes on after name.rmtree() ended as t
ClearKeys_removed(heap, o, t, i, cc) ==
    IF ~t.res.ok THEN Step(t.w, o, t.res) ELSE ClearKeys(heap, t.w, o, i + 1, cc)

\* line 251: name.rmtree(), where self / ... gave child
ClearKeys_child(heap, n, child, i, cc) ==
    IF ~child.res.ok THEN Step(n.w, n.o, child.res)
    ELSE ClearKeys_removed(heap, n.o, rmtree(heap, n.w, child.obj), i, cc)

\* line 250: name = self / <what EnumKey gave>
ClearKeys_named(heap, n, i, cc) ==
    IF ~n.res.ok THEN n
    ELSE ClearKeys_child(heap, n, truediv(heap, n.o, Join(<<n.res.val>>)), i, cc)

\* lines 249-251: for i in range(cc)
ClearKeys(heap, w, o, i, cc) ==
    IF i >= cc THEN Step(w, o, Ret(PyNone))
    ELSE ClearKeys_named(heap, _invoke_api(heap, w, o, "EnumKey", <<i>>), i, cc)

\* line 254: name, data, typ = <what EnumKey gave>.  A sub-key name unpacks into
\* three only when it has three characters; the names of NameOrder have one or two
ClearValues_named(n) ==
    IF ~n.res.ok THEN n ELSE Step(n.w, n.o, Raise("ValueError"))

\* lines 253-255: for i in range(vc), which asks EnumKey for a value
ClearValues(heap, w, o, i, vc) ==
    IF i >= vc THEN Step(w, o, Ret(PyNone))
    ELSE ClearValues_named(_invoke_api(heap, w, o, "EnumKey", <<i>>))

\* lines 253-255, after the loop over the sub-keys ended as k
clear_keys_cleared(heap, k, vc) ==
    IF ~k.res.ok THEN k ELSE ClearValues(heap, k.w, k.o, 0, vc)

\* lines 248-255, after QueryInfoKey gave q
clear_counted(heap, q) ==
    IF ~q.res.ok THEN q
    ELSE clear_keys_cleared(heap, ClearKeys(heap, q.w, q.o, 0, q.res.val.cc),
                            q.res.val.vc)

clear(heap, w, o) ==
    clear_counted(heap, _invoke_api(heap, w, o, "QueryInfoKey", <<>>))

\* line 259, after self.clear() ended as c
rmtree_cleared(heap, c) == IF ~c.res.ok THEN c ELSE rmdir(heap, c.w, c.o)

rmtree(heap, w, o) == rmtree_cleared(heap, clear(heap, w, o))

\* line 347, after _normalize_type gave t
set_value_typed(heap, w, o, vname, value, t) ==
    IF ~t.ok THEN Step(w, o, t)
    ELSE _invoke_api(heap, w, o, "SetValueEx", <<vname, 0, t.val, value>>)

set_value(heap, w, o, vname, value, typ) ==
    set_value_typed(heap, w, o, vname, value, _normalize_type(typ, value))

\* line 350: the data of (data, type)
get_value_queried(r) ==
    IF r.res.ok THEN Step(r.w, r.o, Ret(r.res.val[1])) ELSE r

get_value(heap, w, o, vname) ==
    get_value_queried(_invoke_api(heap, w, o, "QueryValueEx", <<vname>>))

(***************************************************************************)
(* The state after module load: the seven hive singletons, no handle       *)
(* handed out, and a registry holding one of the stores of InitStores.     *)
(***************************************************************************)
NumHives == Len(HiveOrder)

Srv == Sep \o Sep \o "srv"

HKCU == "HKEY_CURRENT_USER"

NoHandles == [h \in {} |-> HandleOn(NoHost, <<>>, {})]

StoredValue(host, path, vname, typ, data) ==
    [host |-> host, path |-> path, name |-> vname, typ |-> typ, data |-> data]

\* a key with two nested sub-keys and three values, and a key on the remote host
TreeStore ==
    [keys |-> {KeyAt(NoHost, <<HKCU, "a">>), KeyAt(NoHost, <<HKCU, "a", "b">>),
               KeyAt(NoHost, <<HKCU, "a", "b", "c">>), KeyAt(Srv, <<HKCU, "a">>)},
     vals |-> {StoredValue(NoHost, <<HKCU, "a">>, "v1", Type.SZ, PyStr("x")),
               StoredValue(NoHost, <<HKCU, "a">>, "v2", Type.DWORD, PyInt(Nat2Int(5))),
               StoredValue(NoHost, <<HKCU, "a">>, "v3", Type.SZ, PyStr("y"))}]

EmptyStore == [keys |-> {}, vals |-> {}]

InitStores == {EmptyStore, TreeStore}

NoTrail == [oid |-> 0, stage |-> 0]

WorldInit ==
    /\ objs = InitObjs
    /\ \E s \in InitStores : keys = s.keys /\ vals = s.vals
    /\ handles = NoHandles
    /\ trail = NoTrail

(***************************************************************************)
(* TypeSpec: _normalize_type on one input.                                 *)
(***************************************************************************)
MaxDelta == 2

\* the four bounds of the two ranges
Bounds ==
    [lo32 |-> IntNeg(Lit_8000_0000), hi32 |-> Lit_ffff_ffff,
     lo64 |-> IntNeg(Lit_8000_0000_0000_0000), hi64 |-> Lit_ffff_ffff_ffff_ffff]

\* 2**40
TwoTo40 == [neg |-> FALSE, mag |-> <<0, 0, 2^8>>]

IntInputs ==
    {PyInt(IntPlus(Bounds[b], d)) : b \in DOMAIN Bounds, d \in -MaxDelta..MaxDelta}
        \cup {PyInt(Nat2Int(0)), PyInt(Nat2Int(5)), PyInt(TwoTo40), PyInt(IntNeg(TwoTo40))}

ValueInputs ==
    IntInputs \cup
    {PyStr("x"), PyStr(""), PyNone, PyFloat,
     PyList(<<>>), PyList(<<PyStr("a"), PyStr("b")>>),
     PyList(<<PyStr("a"), PyInt(Nat2Int(1))>>), PyList(<<PyNone>>)}

HintInputs ==
    {PyNone, PyInt(Nat2Int(4)), PyInt(Nat2Int(999)), PyInt(IntNeg(Nat2Int(1))),
     PyStr("QWORD"), PyStr("SZ"), PyStr("DWORD_LITTLE_ENDIAN"), PyStr("BOGUS"), PyStr("sz")}

TypeInit ==
    /\ WorldInit
    /\ call \in {[op |-> "_normalize_type", typ |-> t, value |-> v] :
                    t \in HintInputs, v \in ValueInputs}
    /\ ret = Pending

Normalize ==
    /\ call.op = "_normalize_type" /\ ret.exc = "pending"
    /\ ret' = _normalize_type(call.typ, call.value)
    /\ UNCHANGED <<objs, keys, vals, handles, call, trail>>

TypeNext == Normalize

TypeSpec == TypeInit /\ [][TypeNext]_vars

(***************************************************************************)
(* NewSpec: RegPath(parts, remote_host) on one input, after module load.   *)
(***************************************************************************)
MaxStrLen == 4

MaxObjs == 2

\* the pieces strings are made of
Alphabet == {Sep, "HKCU", "a", "srv"}

RECURSIVE SeqsUpTo(_, _)
SeqsUpTo(S, n) ==
    IF n = 0 THEN {<<>>}
    ELSE LET shorter == SeqsUpTo(S, n - 1) IN
         shorter \cup {Append(q, x) : q \in {y \in shorter : Len(y) = n - 1}, x \in S}

\* every hive name and alias, alone and after one separator, and as a one-element sequence
HiveInputs ==
    {StrIn(<<n>>) : n \in HiveNames \cup HiveAliases}
        \cup {StrIn(<<Sep, n>>) : n \in HiveNames \cup HiveAliases}
        \cup {SeqIn(<<n>>) : n \in HiveNames \cup HiveAliases}

NewInputs ==
    {StrIn(s) : s \in SeqsUpTo(Alphabet, MaxStrLen)}
        \cup {SeqIn(s) : s \in SeqsUpTo({"HKCU", "a", ""}, 2)}
        \cup HiveInputs

HostInputs == {NoHost, Srv}

FreeOids == {o \in (NumHives + 1)..(NumHives + MaxObjs) : o \notin DOMAIN objs}

\* the heap with a new object in its lowest free place
Allocated(obj) ==
    LET oid == CHOOSE o \in FreeOids : \A q \in FreeOids : o <= q IN
    [o \in DOMAIN objs \cup {oid} |-> IF o = oid THEN obj ELSE objs[o]]

NewOid == CHOOSE o \in FreeOids : \A q \in FreeOids : o <= q

NewInit ==
    /\ WorldInit
    /\ call \in {[op |-> "new", in |-> i, remote_host |-> h] :
                    i \in NewInputs, h \in HostInputs}
    /\ ret = Pending

Construct ==
    /\ call.op = "new" /\ ret.exc = "pending"
    /\ LET r == New(HIVES, objs, call.in, call.remote_host) IN
       /\ objs' = IF r.fresh THEN Allocated(r.obj) ELSE objs
       /\ ret' = IF r.fresh THEN Ret(NewOid) ELSE r.res
    /\ UNCHANGED <<keys, vals, handles, call, trail>>

NewNext == Construct

NewSpec == NewInit /\ [][NewNext]_vars

(***************************************************************************)
(* Claims about _normalize_type (TypeSpec).                                *)
(***************************************************************************)
Done == ret.exc # "pending"

Normalized == call.op = "_normalize_type" /\ Done

Returns(tag) == ret.ok /\ ret.val = TypeTag(tag)

IsInt(v, bound, d) == v = PyInt(IntPlus(Bounds[bound], d))

\* C8: with no type hint, a string gives SZ, None gives NONE, an iterable of strings
\* gives MULTI_SZ, and an integer v gives DWORD exactly when -2^31 < v < 2^32-1,
\* otherwise QWORD exactly when -2^63 < v < 2^64-1, and otherwise the call fails;
\* at every value within MaxDelta of the four bounds.
C8_InferenceTable ==
    (Normalized /\ call.typ = PyNone) =>
        /\ isinstance(call.value, "str") => Returns("SZ")
        /\ call.value = PyNone => Returns("NONE")
        /\ (isinstance(call.value, "list")
              /\ \A i \in 1..Len(call.value.items) : call.value.items[i].k = "str")
             => Returns("MULTI_SZ")
        /\ call.value \in {PyInt(Nat2Int(0)), PyInt(Nat2Int(5))} => Returns("DWORD")
        /\ call.value \in {PyInt(TwoTo40), PyInt(IntNeg(TwoTo40))} => Returns("QWORD")
        /\ \A d \in -MaxDelta..MaxDelta :
            /\ IsInt(call.value, "lo32", d) => Returns(IF d > 0 THEN "DWORD" ELSE "QWORD")
            /\ IsInt(call.value, "hi32", d) => Returns(IF d < 0 THEN "DWORD" ELSE "QWORD")
            /\ IsInt(call.value, "lo64", d) => IF d > 0 THEN Returns("QWORD") ELSE ~ret.ok
            /\ IsInt(call.value, "hi64", d) => IF d < 0 THEN Returns("QWORD") ELSE ~ret.ok

\* 2^32-1 itself is a QWORD and -2^63 itself is refused
C8_Witness ==
    /\ Normalized /\ call.typ = PyNone
    /\ \/ call.value = PyInt(Lit_ffff_ffff) /\ Returns("QWORD")
       \/ call.value = PyInt(IntNeg(Lit_8000_0000_0000_0000)) /\ ~ret.ok

\* a value no inference rule accepts
Unsupported(v) ==
    \/ v = PyFloat
    \/ isinstance(v, "list") /\ \E i \in 1..Len(v.items) : v.items[i].k # "str"
    \/ \E d \in -MaxDelta..0 : IsInt(v, "lo64", d)
    \/ \E d \in 0..MaxDelta : IsInt(v, "hi64", d)

\* C9: with a hint the value is not looked at: an integer hint comes back as it is,
\* a string hint naming a member of Type gives that member, any other string raises
\* KeyError; with no hint a value of unsupported shape raises RuntimeError.
C9_HintRules ==
    Normalized =>
        /\ isinstance(call.typ, "int") => ret.ok /\ ret.val = call.typ
        /\ (isinstance(call.typ, "str") /\ call.typ.s \in DOMAIN Type)
             => Returns(call.typ.s)
        /\ (isinstance(call.typ, "str") /\ call.typ.s \notin DOMAIN Type)
             => ~ret.ok /\ ret.exc = "KeyError"
        /\ (call.typ = PyNone /\ Unsupported(call.value))
             => ~ret.ok /\ ret.exc = "RuntimeError"

C9_Witness ==
    /\ Normalized
    /\ \/ call.typ = PyInt(Nat2Int(999)) /\ call.value = PyFloat /\ ret.ok
       \/ call.typ = PyNone /\ call.value = PyList(<<PyStr("a"), PyInt(Nat2Int(1))>>)
            /\ ret.exc = "RuntimeError"

(***************************************************************************)
(* Claims about RegPath.__new__ on one input (NewSpec).                    *)
(***************************************************************************)
Constructed == call.op = "new" /\ Done

\* the ways the claim gives a hive: its alias or its name, as a string with or without
\* one leading separator, or as a one-element sequence
HiveForms(i) ==
    {StrIn(<<n>>) : n \in {HiveOrder[i], AliasOrder[i]}}
        \cup {StrIn(<<Sep, n>>) : n \in {HiveOrder[i], AliasOrder[i]}}
        \cup {SeqIn(<<n>>) : n \in {HiveOrder[i], AliasOrder[i]}}

\* C2: for each of the seven hives, the alias and the full name, in every form, give
\* the singleton registered at module load, and no new object.
C2_HiveSingletons ==
    \A i \in DOMAIN HiveOrder :
        (Constructed /\ call.remote_host = NoHost /\ call.in \in HiveForms(i)) =>
            /\ ret.ok /\ ret.val = i
            /\ objs = InitObjs
            /\ objs[i].parts = <<HiveOrder[i]>> /\ objs[i].key = PredefKey(HiveOrder[i])

C2_Witness ==
    /\ Constructed /\ call.remote_host = NoHost
    /\ call.in = StrIn(<<Sep, "HKPD">>) /\ ret.ok /\ ret.val = 7

RECURSIVE Flat(_)
\* the text of a sequence of pieces
Flat(s) == IF s = <<>> THEN "" ELSE s[1] \o Flat(Tail(s))

RECURSIVE Joined(_)
\* components written with separators between them
Joined(parts) ==
    IF Len(parts) = 1 THEN parts[1] ELSE parts[1] \o Sep \o Joined(Tail(parts))

StartsUNC(s) == Len(s) >= 2 /\ s[1] = Sep /\ s[2] = Sep

\* the components before the alias table is applied to the first
Spelled(parts, text) ==
    \E first \in {parts[1]} \cup {a \in HiveAliases : HK_ALIASES[a] = parts[1]} :
        text = Joined(<<first>> \o Tail(parts))

\* strings that name no component
Componentless(s) ==
    \/ s = <<>>
    \/ s = <<Sep>>
    \/ StartsUNC(s) /\ \A i \in 3..Len(s) : s[i] # Sep

\* C10: a string starting with two separators gives its third segment, after the two
\* separators, as the remote host and the rest as components, and is an error when a
\* remote host is passed too; any other string loses one leading empty segment; and
\* a string that names no component (empty, a lone separator, a UNC host without
\* hive) raises and builds no object.
C10_StringResolution ==
    (Constructed /\ call.in.isstr) =>
        LET s == call.in.seq IN
        /\ (StartsUNC(s) /\ call.remote_host # NoHost) => ~ret.ok /\ objs = InitObjs
        /\ (StartsUNC(s) /\ ret.ok) =>
              \E i \in 3..Len(s) :
                 /\ s[i] = Sep /\ \A j \in 3..(i - 1) : s[j] # Sep
                 /\ objs[ret.val].remote_host = Sep \o Sep \o Flat(SubSeq(s, 3, i - 1))
                 /\ Spelled(objs[ret.val].parts, Flat(SubSeq(s, i + 1, Len(s))))
        /\ (~StartsUNC(s) /\ ret.ok) =>
              /\ objs[ret.val].remote_host = call.remote_host
              /\ Spelled(objs[ret.val].parts,
                         IF s[1] = Sep THEN Flat(Tail(s)) ELSE Flat(s))
        /\ Componentless(s) => ~ret.ok /\ objs = InitObjs

(***************************************************************************)
(* Spec: calls on the objects of the heap.  Each action is one call: it    *)
(* runs the method on the object and the registry as they are, stores what *)
(* it leaves, and records the call (with what held before it, and the      *)
(* winreg functions it called) and its result.                             *)
(***************************************************************************)
\* the objects called in Spec: the ones made after load
OpOids == {o \in DOMAIN objs : o > NumHives}

\* what RegPath(...) is called with in Spec
PathInputs ==
    {[in |-> StrIn(<<"HKCU">>), remote_host |-> NoHost],
     [in |-> StrIn(<<"HKCU", Sep, "a">>), remote_host |-> NoHost]}

\* the longest path made by joining
MaxDepth == 3

ChildInputs == {<<"b">>}

ValueNameInputs == {"v1"}

SetInputs ==
    {[value |-> PyStr("x"), typ |-> PyNone],
     [value |-> PyInt(IntNeg(Nat2Int(1))), typ |-> PyNone],
     [value |-> PyNone, typ |-> PyStr("SZ")]}

W(fault) == World(keys, vals, handles, fault)

ParentPath(o) == SubSeq(o.parts, 1, Len(o.parts) - 1)

\* the hive singleton of o still holds the root handle installed at load
RootIntact(o) ==
    o.parts[1] \in HiveNames /\ objs[HIVES[o.parts[1]]].key = _HIVES[o.parts[1]]

NoPre ==
    [opened |-> FALSE, exists |-> FALSE, parentExists |-> FALSE, kids |-> 0, names |-> 0,
     rootIntact |-> FALSE]

\* what holds of object oid and the registry before a call
Pre(oid) ==
    LET o == objs[oid] IN
    [opened |-> is_opened(o),
     exists |-> KeyExists(W(FALSE), o.remote_host, o.parts),
     parentExists |-> ~is_hive(o) /\ KeyExists(W(FALSE), o.remote_host, ParentPath(o)),
     kids |-> Cardinality(ChildNames(W(FALSE), o.remote_host, o.parts)),
     names |-> Cardinality(ValueNames(W(FALSE), o.remote_host, o.parts)),
     rootIntact |-> RootIntact(o)]

\* the handles that the objects of a heap hold
HeldIn(heap) == {heap[o].key.id : o \in {x \in DOMAIN heap : heap[x].key.t = "h"}}

\* The open handles no object of the heap holds.  A handle object that nothing refers
\* to is collected, and winreg closes its handle then: such handles leave the table
\* when the call ends, and call.orphans counts them.
Orphans(heap, hs) == DOMAIN hs \ HeldIn(heap)

Collected(heap, hs) == [h \in DOMAIN hs \cap HeldIn(heap) |-> hs[h]]

\* Handle ids are tokens the registry picks.  When a call ends the handles that stay
\* are numbered in the order of the objects holding them.
Holders(heap) == {o \in DOMAIN heap : heap[o].key.t = "h"}

Rank(heap, o) == Cardinality({x \in Holders(heap) : x <= o})

SettledObjs(heap) ==
    [o \in DOMAIN heap |->
        IF o \in Holders(heap) THEN [heap[o] EXCEPT !.key = DynKey(Rank(heap, o))]
        ELSE heap[o]]

SettledHandles(heap, hs) ==
    LET live == {o \in Holders(heap) : heap[o].key.id \in DOMAIN hs} IN
    [i \in {Rank(heap, o) : o \in live} |->
        hs[heap[CHOOSE o \in live : Rank(heap, o) = i].key.id]]

\* what a call left as it was
NoSame == [key |-> TRUE, keys |-> TRUE, vals |-> TRUE, handles |-> TRUE]

Same(oid, r) ==
    [key |-> r.o.key = objs[oid].key, keys |-> r.w.keys = keys, vals |-> r.w.vals = vals,
     handles |-> Collected([objs EXCEPT ![oid] = r.o], r.w.handles) = handles]

Called(op, oid, args, fault, pre, same, log, orphans) ==
    [op |-> op, oid |-> oid, args |-> args, fault |-> fault, pre |-> pre, same |-> same,
     log |-> log, orphans |-> orphans]

NoCall ==
    [op |-> "load", oid |-> 0, args |-> <<>>, fault |-> FALSE, pre |-> NoPre,
     same |-> NoSame, log |-> {}, orphans |-> 0]

\* p.exists(), p.mkdir(), p.exists(), p.rmdir(), p.exists()
Expected == <<"exists", "mkdir", "exists", "rmdir", "exists">>

\* a local path below a hive that is not in the store while its parent is
StartsTrail(oid) ==
    LET o == objs[oid] IN
    /\ ~is_remote(o) /\ ~is_hive(o)
    /\ ~KeyExists(W(FALSE), o.remote_host, o.parts)
    /\ KeyExists(W(FALSE), o.remote_host, ParentPath(o))

Follow(op, oid, args, fault) ==
    IF /\ trail.stage \in 1..(Len(Expected) - 1) /\ trail.oid = oid /\ ~fault
       /\ op = Expected[trail.stage + 1]
       /\ (op = "mkdir" => args.parents /\ args.exist_ok)
    THEN [oid |-> oid, stage |-> trail.stage + 1]
    ELSE IF op = "exists" /\ StartsTrail(oid) THEN [oid |-> oid, stage |-> 1]
    ELSE NoTrail

\* the call op(args) on object oid ran as r says
Commit(op, oid, args, fault, r) ==
    /\ ~r.w.ovf
    /\ objs' = SettledObjs([objs EXCEPT ![oid] = r.o])
    /\ keys' = r.w.keys
    /\ vals' = r.w.vals
    /\ handles' = SettledHandles([objs EXCEPT ![oid] = r.o], r.w.handles)
    /\ call' = Called(op, oid, args, fault, Pre(oid), Same(oid, r), r.w.log,
                      Cardinality(Orphans([objs EXCEPT ![oid] = r.o], r.w.handles)))
    /\ ret' = r.res
    /\ trail' = Follow(op, oid, args, fault)

\* a call that gives a path object: one of the heap, or a new one
Gives(op, oid, args, r) ==
    /\ r.fresh => FreeOids # {}
    /\ objs' = IF r.fresh THEN Allocated(r.obj) ELSE objs
    /\ ret' = IF r.fresh THEN Ret(NewOid) ELSE r.res
    /\ call' = Called(op, oid, args, FALSE, NoPre, NoSame, {}, 0)
    /\ trail' = NoTrail
    /\ UNCHANGED <<keys, vals, handles>>

Init ==
    /\ WorldInit
    /\ call = NoCall
    /\ ret = Ret(PyNone)

Resolve(input) ==
    Gives("new", 0, input, New(HIVES, objs, input.in, input.remote_host))

JoinChild(oid, other) ==
    /\ Len(objs[oid].parts) < MaxDepth
    /\ Gives("truediv", oid, other, truediv(objs, objs[oid], other))

Parent(oid) ==
    Gives("parent", oid, <<>>, parent(objs, objs[oid]))

\* the last reference to a path object goes, and nothing has closed the handle it holds
Release(oid) ==
    /\ oid > NumHives
    /\ objs' = SettledObjs([o \in DOMAIN objs \ {oid} |-> objs[o]])
    /\ handles' = SettledHandles([o \in DOMAIN objs \ {oid} |-> objs[o]], handles)
    /\ call' = Called("release", oid, <<>>, FALSE, NoPre, NoSame, {},
                      Cardinality(Orphans([o \in DOMAIN objs \ {oid} |-> objs[o]], handles)))
    /\ ret' = Ret(PyNone)
    /\ trail' = NoTrail
    /\ UNCHANGED <<keys, vals>>

Open(oid) == Commit("open", oid, <<>>, FALSE, open(objs, W(FALSE), objs[oid]))

Close(oid, fault) == Commit("close", oid, <<>>, fault, close(objs, W(fault), objs[oid]))

\* with self: ...  leaves through __exit__, after a normal end or an exception
ScopeExit(oid, fault) ==
    Commit("__exit__", oid, <<>>, fault, close(objs, W(fault), objs[oid]))

Exists(oid) == Commit("exists", oid, <<>>, FALSE, exists(objs, W(FALSE), objs[oid]))

Mkdir(oid, parents, exist_ok) ==
    Commit("mkdir", oid, [parents |-> parents, exist_ok |-> exist_ok], FALSE,
           mkdir(objs, W(FALSE), objs[oid], parents, exist_ok))

Rmdir(oid, fault) == Commit("rmdir", oid, <<>>, fault, rmdir(objs, W(fault), objs[oid]))

Rmtree(oid) == Commit("rmtree", oid, <<>>, FALSE, rmtree(objs, W(FALSE), objs[oid]))

Clear(oid) == Commit("clear", oid, <<>>, FALSE, clear(objs, W(FALSE), objs[oid]))

DeleteChild(oid, child) ==
    Commit("delete_child", oid, <<child>>, FALSE,
           delete_child(objs, W(FALSE), objs[oid], child))

SetValue(oid, vname, input) ==
    Commit("set_value", oid, [name |-> vname, value |-> input.value, typ |-> input.typ],
           FALSE, set_value(objs, W(FALSE), objs[oid], vname, input.value, input.typ))

GetValue(oid, vname) ==
    Commit("get_value", oid, [name |-> vname], FALSE,
           get_value(objs, W(FALSE), objs[oid], vname))

DelValue(oid, vname) ==
    Commit("delete_value", oid, [name |-> vname], FALSE,
           delete_value(objs, W(FALSE), objs[oid], vname))

Next ==
    \/ \E input \in PathInputs : Resolve(input)
    \/ \E oid \in OpOids, other \in ChildInputs : JoinChild(oid, other)
    \/ \E oid \in OpOids : Parent(oid)
    \/ \E oid \in OpOids : Release(oid)
    \/ \E oid \in OpOids : Open(oid)
    \/ \E oid \in OpOids : Close(oid, FALSE)
    \/ \E oid \in OpOids : ScopeExit(oid, FALSE)
    \/ \E oid \in OpOids : Exists(oid)
    \/ \E oid \in OpOids, parents \in BOOLEAN, exist_ok \in BOOLEAN :
          Mkdir(oid, parents, exist_ok)
    \/ \E oid \in OpOids : Rmdir(oid, FALSE)
    \/ \E oid \in OpOids : Rmtree(oid)
    \/ \E oid \in OpOids : Clear(oid)
    \/ \E oid \in OpOids, child \in {"a", "b"} : DeleteChild(oid, child)
    \/ \E oid \in OpOids, vname \in ValueNameInputs, input \in SetInputs :
          SetValue(oid, vname, input)
    \/ \E oid \in OpOids, vname \in ValueNameInputs : GetValue(oid, vname)
    \/ \E oid \in OpOids, vname \in ValueNameInputs : DelValue(oid, vname)

Spec == Init /\ [][Next]_vars

\* the registry may fail CloseKey
FaultNext ==
    \/ Next
    \/ \E oid \in OpOids : Close(oid, TRUE)
    \/ \E oid \in OpOids : ScopeExit(oid, TRUE)
    \/ \E oid \in OpOids : Rmdir(oid, TRUE)

FaultSpec == Init /\ [][FaultNext]_vars

(***************************************************************************)
(* MkdirSpec: the calls that make, open and remove keys, without the value *)
(* operations and the recursive removal.                                   *)
(***************************************************************************)
MkdirNext ==
    \/ \E input \in PathInputs : Resolve(input)
    \/ \E oid \in OpOids, other \in ChildInputs : JoinChild(oid, other)
    \/ \E oid \in OpOids : Release(oid)
    \/ \E oid \in OpOids : Exists(oid)
    \/ \E oid \in OpOids, parents \in BOOLEAN, exist_ok \in BOOLEAN :
          Mkdir(oid, parents, exist_ok)
    \/ \E oid \in OpOids : Rmdir(oid, FALSE)

MkdirSpec == Init /\ [][MkdirNext]_vars

(***************************************************************************)
(* Claims about the calls on path objects (Spec, FaultSpec, MkdirSpec).    *)
(***************************************************************************)
SamePath(a, b) ==
    objs[a].remote_host = objs[b].remote_host /\ objs[a].parts = objs[b].parts

\* C1: resolving a (remote host, components) pair while an object for it is referenced
\* gives that object: no two objects of the heap have the same pair.
C1_OneObjectPerPath ==
    \A a \in DOMAIN objs, b \in DOMAIN objs : SamePath(a, b) => a = b

\* C3: on one object of a local path below a hive, absent from the store while its
\* parent is there, the calls exists(), mkdir(), exists(), rmdir(), exists() made in
\* this order return false, None, true, None, false.
C3_ExistenceSequence ==
    /\ trail.stage = 1 => ret.ok /\ ret.val = FALSE
    /\ trail.stage = 2 => ret.ok
    /\ trail.stage = 3 => ret.ok /\ ret.val = TRUE
    /\ trail.stage = 4 => ret.ok
    /\ trail.stage = 5 => ret.ok /\ ret.val = FALSE

\* the keys at or below the path of object oid
KeysBelow(oid) ==
    {k \in keys : k.host = objs[oid].remote_host /\ IsPrefix(objs[oid].parts, k.path)}

\* C4: rmtree() on a key that holds sub-keys and values returns, and then neither the
\* key nor any key below it is in the store and exists() on the object is false.
C4_RmtreeRemovesAll ==
    (call.op = "rmtree" /\ call.pre.exists /\ call.pre.kids > 0 /\ call.pre.names > 0) =>
        /\ ret.ok
        /\ KeysBelow(call.oid) = {}
        /\ exists(objs, W(FALSE), objs[call.oid]).res = Ret(FALSE)

\* close() once more on the object of the last call, when CloseKey fails (f) or not
ClosedAgain(f) == close(objs, W(f), objs[call.oid])

\* C5: close() never raises, whatever CloseKey does, and a second close() right after
\* it, again whatever CloseKey does, leaves the handle of the object and the open
\* handles as the first left them.
C5_CloseIdempotent ==
    call.op = "close" =>
        /\ ret.ok
        /\ \A f \in BOOLEAN :
              /\ ClosedAgain(f).res.ok
              /\ ClosedAgain(f).o.key = objs[call.oid].key
              /\ SettledHandles([objs EXCEPT ![call.oid] = ClosedAgain(f).o],
                                ClosedAgain(f).w.handles) = handles

\* C6: set_value(name, v) of a string v on an existing key returns, and get_value(name)
\* on the same object then returns v.
C6_SetThenGet ==
    (call.op = "set_value" /\ call.pre.exists /\ isinstance(call.args.value, "str")) =>
        /\ ret.ok
        /\ get_value(objs, W(FALSE), objs[call.oid], call.args.name).res
              = Ret(call.args.value)

\* the last call raised e, asked the registry for no key, and left the keys as they were
Refuses(e) ==
    ~ret.ok /\ ret.exc = e /\ "CreateKeyEx" \notin call.log /\ call.same.keys

NoSuchHost == Sep \o Sep \o "bad"

RemoteInputs ==
    {[in |-> StrIn(<<Sep, Sep, "srv", Sep, "HKCU", Sep, "a">>), remote_host |-> NoHost],
     [in |-> StrIn(<<"HKCU">>), remote_host |-> Srv],
     [in |-> StrIn(<<"HKCU", Sep, "a">>), remote_host |-> NoSuchHost]}

RemoteNext ==
    \/ \E input \in RemoteInputs : Resolve(input)
    \/ \E oid \in OpOids : Release(oid)
    \/ \E oid \in OpOids : Open(oid)
    \/ \E oid \in OpOids : Close(oid, FALSE)
    \/ \E oid \in OpOids : Exists(oid)
    \/ \E oid \in OpOids, parents \in BOOLEAN, exist_ok \in BOOLEAN :
          Mkdir(oid, parents, exist_ok)
    \/ \E oid \in OpOids : Rmdir(oid, FALSE)

RemoteSpec == Init /\ [][RemoteNext]_vars

(***************************************************************************)
(* Claims about paths with a remote host, and about exists() (RemoteSpec). *)
(***************************************************************************)
NotFound == OSError(2)

\* exists() on the closed object oid ended as its open() attempt a tells
ExistsAsOpened(oid, a) ==
    /\ (a = NotFound) <=> (ret'.ok /\ ret'.val = FALSE)
    /\ a.ok <=> (ret'.ok /\ ret'.val = TRUE)
    /\ (~a.ok /\ a # NotFound) => ret' = a
    /\ is_opened(objs'[oid]) <=> (ret'.ok /\ ret'.val = TRUE)

\* C11: exists() on a closed path returns false exactly when its open() attempt
\* fails with the registry's not-found error (winerror 2), raises any other failure
\* of the attempt as it is, and returns true when the attempt succeeds; the path is
\* open after it exactly when it returned true.
C11_ExistsOnClosed ==
    [][\A oid \in DOMAIN objs :
          (call'.op = "exists" /\ call'.oid = oid /\ ~is_opened(objs[oid]))
              => ExistsAsOpened(oid, open(objs, W(FALSE), objs[oid]).res)]_vars

\* exists() on a closed path of a host that does not answer raised what open() raised
C11_Witness ==
    /\ call.op = "exists" /\ ~call.pre.opened
    /\ ~ret.ok /\ ret.exc = "OSError" /\ ret.winerror = 53
    /\ ~is_opened(objs[call.oid])

\* C12: every path object that RegPath(...) returns has at least one component, and
\* its first component is one of the seven full hive names.
C12_CanonicalFirst ==
    (Constructed /\ ret.ok) =>
        /\ objs[ret.val].parts # <<>>
        /\ objs[ret.val].parts[1] \in HiveNames

(***************************************************************************)
(* HiveSpec: the calls of MkdirSpec and the value calls, made on the hive  *)
(* singleton HKEY_CURRENT_USER as well as on the objects made after load.  *)
(***************************************************************************)
HiveOids == {HIVES[HKCU]}

HiveNext ==
    \/ \E input \in PathInputs : Resolve(input)
    \/ \E oid \in OpOids : Release(oid)
    \/ \E oid \in OpOids \cup HiveOids : Open(oid)
    \/ \E oid \in OpOids \cup HiveOids : Close(oid, FALSE)
    \/ \E oid \in OpOids \cup HiveOids : ScopeExit(oid, FALSE)
    \/ \E oid \in OpOids \cup HiveOids : Exists(oid)
    \/ \E oid \in OpOids \cup HiveOids, parents \in BOOLEAN, exist_ok \in BOOLEAN :
          Mkdir(oid, parents, exist_ok)
    \/ \E oid \in OpOids \cup HiveOids : Rmdir(oid, FALSE)
    \/ \E oid \in OpOids \cup HiveOids, vname \in ValueNameInputs, input \in SetInputs :
          SetValue(oid, vname, input)
    \/ \E oid \in OpOids \cup HiveOids, vname \in ValueNameInputs : GetValue(oid, vname)

HiveSpec == Init /\ [][HiveNext]_vars

\* C13: whatever was called, every local hive singleton is open on the root handle
\* that was installed when it was registered.
C13_HiveRootKept ==
    \A i \in 1..NumHives : objs[i].key = PredefKey(HiveOrder[i])

\* C14: clear() on a key of the store returns, and then the key has no sub-key and
\* no value, and is still in the store.
C14_ClearEmpties ==
    (call.op = "clear" /\ call.pre.exists) =>
        /\ ret.ok
        /\ ChildNames(W(FALSE), objs[call.oid].remote_host, objs[call.oid].parts) = {}
        /\ ValueNames(W(FALSE), objs[call.oid].remote_host, objs[call.oid].parts) = {}
        /\ KeyExists(W(FALSE), objs[call.oid].remote_host, objs[call.oid].parts)

\* C15: after close(), called directly or by __exit__, a path that is not a local hive
\* root is closed (it holds no handle), also when CloseKey failed.
C15_ClosedAfterClose ==
    (call.op \in {"close", "__exit__"}
        /\ (is_remote(objs[call.oid]) \/ ~is_hive(objs[call.oid])))
        => ret.ok /\ ~is_opened(objs[call.oid])

\* C16: every open handle is the handle of exactly one path object, and no call on a
\* path object, whether it returned or raised, left an open handle that no path
\* object holds.
C16_NoOrphanHandles ==
    /\ \A h \in DOMAIN handles :
          Cardinality({o \in DOMAIN objs : objs[o].key = DynKey(h)}) = 1
    /\ call.op # "release" => call.orphans = 0

\* C17: exists() returns true only for a key that is in the store when it is called.
C17_ExistsMeansPresent ==
    (call.op = "exists" /\ ret.ok /\ ret.val = TRUE) =>
        KeyExists(W(FALSE), objs[call.oid].remote_host, objs[call.oid].parts)

LocalKeys(ks) == {k \in ks : k.host = NoHost}

\* mkdir() on the remote path of object oid made its key on the host of the path,
\* left the local keys alone, and left the object open on the key of that host
MadeOnHost(oid) ==
    /\ LocalKeys(keys') = LocalKeys(keys)
    /\ KeyExists([keys |-> keys'], objs[oid].remote_host, objs[oid].parts)
    /\ objs'[oid].key.t = "h"
    /\ handles'[objs'[oid].key.id].host = objs[oid].remote_host
    /\ handles'[objs'[oid].key.id].path = objs[oid].parts

\* C18: mkdir() on a path with a remote host, when it returns, has created the key in
\* the store of that host, not changed the local store, and stored a handle on the
\* key of that host.
C18_RemoteMkdir ==
    [][\A oid \in DOMAIN objs :
          (call'.op = "mkdir" /\ call'.oid = oid /\ is_remote(objs[oid]) /\ ret'.ok)
              => MadeOnHost(oid)]_vars

\* C20: when mkdir() raises "Already exists" or "Parent not exists", no function of
\* the registry was called, and the object holds the handle it held before, or none
\* as before.
C20_MkdirFailsUntouched ==
    (call.op = "mkdir" /\ ~ret.ok
        /\ ret.exc \in {"ValueError: Already exists", "ValueError: Parent not exists"})
        => call.log = {} /\ call.same.key

(***************************************************************************)
(* RaceSpec: threads calling open() on one closed path object, a local     *)
(* sub-key, a remote sub-key or a remote hive.  A step is one statement of *)
(* open(): the interpreter may switch threads between statements, and      *)
(* winreg releases the interpreter lock while a registry call runs.  Here  *)
(* call holds, for every thread, the line it is at and its local value     *)
(* (the handle it got), the thread that assigned self.key last, and the    *)
(* number of handles on the path that the registry has handed out.         *)
(***************************************************************************)
MaxThreads == 2

Threads == 1..MaxThreads

RaceInputs ==
    {[in |-> StrIn(<<"HKCU", Sep, "a">>), remote_host |-> NoHost],
     [in |-> StrIn(<<"HKCU", Sep, "a">>), remote_host |-> Srv],
     [in |-> StrIn(<<"HKCU">>), remote_host |-> Srv]}

RaceOid == NumHives + 1

Idle == [pc |-> "idle", got |-> NoKey, passed |-> FALSE]

RaceInit ==
    /\ \E s \in InitStores : keys = s.keys /\ vals = s.vals
    /\ \E input \in RaceInputs :
          objs = [o \in DOMAIN InitObjs \cup {RaceOid} |->
                    IF o = RaceOid
                    THEN New(HIVES, InitObjs, input.in, input.remote_host).obj
                    ELSE InitObjs[o]]
    /\ handles = NoHandles
    /\ trail = NoTrail
    /\ call = [op |-> "open", oid |-> RaceOid, threads |-> [t \in Threads |-> Idle],
               last |-> 0, acquired |-> 0]
    /\ ret = Ret(PyNone)

\* lines 139-142: where open() goes after its check
open_check(o) ==
    IF is_opened(o) THEN "returned" ELSE IF is_remote(o) THEN "line143" ELSE "line150"

\* self.key = k that leaves a key already set
StoreKeyOnce(o, k) == IF is_opened(o) THEN o ELSE [o EXCEPT !.key = k]

\* self.key = k
StoreKey(o, k) == [o EXCEPT !.key = k]

At(t, line) == call.threads[t].pc = line

\* thread t goes to line pc with the local value got
Goes(t, pc, got, passed) ==
    [call EXCEPT !.threads[t] = [pc |-> pc, got |-> got, passed |-> passed]]

\* thread t had r from the registry: it goes on to line next with the handle, or raises
Got(t, r, next, sub) ==
    /\ ~r.w.ovf
    /\ handles' = r.w.handles
    /\ call' = IF r.res.ok
               THEN [Goes(t, next, r.res.val, TRUE) EXCEPT
                        !.acquired = IF sub THEN @ + 1 ELSE @]
               ELSE Goes(t, "raised", NoKey, TRUE)
    /\ ret' = IF r.res.ok THEN ret ELSE r.res
    /\ UNCHANGED <<objs, keys, vals, trail>>

\* thread t calls open()
CallOpen(t) ==
    /\ At(t, "idle")
    /\ call' = Goes(t, "line139", NoKey, FALSE)
    /\ UNCHANGED <<objs, keys, vals, handles, ret, trail>>

\* if self.is_opened: return
Line139(t) ==
    /\ At(t, "line139")
    /\ call' = Goes(t, open_check(objs[call.oid]), NoKey, ~is_opened(objs[call.oid]))
    /\ ret' = IF is_opened(objs[call.oid]) THEN Ret(PyNone) ELSE ret
    /\ UNCHANGED <<objs, keys, vals, handles, trail>>

\* hive_key = winreg.ConnectRegistry(self.remote_host, self.hive_key)
Line143(t) ==
    /\ At(t, "line143")
    /\ Got(t, ConnectRegistry(W(FALSE), objs[call.oid].remote_host,
                              _HIVES[objs[call.oid].parts[1]]),
           IF is_hive(objs[call.oid]) THEN "assign" ELSE "line147", is_hive(objs[call.oid]))

\* getattr(winreg, 'OpenKeyEx')(hive_key, ...), before self.key is assigned
Line147(t) ==
    /\ At(t, "line147")
    /\ Got(t, Api(W(FALSE), call.threads[t].got, "OpenKeyEx", OpenArgs(objs[call.oid])),
           "assign", TRUE)

\* self.hive._invoke_api('OpenKeyEx', ...), before self.key is assigned
Line150(t) ==
    /\ At(t, "line150")
    /\ Got(t, HiveInvoke(objs, W(FALSE), objs[call.oid], "OpenKeyEx",
                         OpenArgs(objs[call.oid])),
           "assign", TRUE)

\* self.key = <the handle>, lines 145, 147 and 150, and open() returns
Assign(t) ==
    /\ At(t, "assign")
    /\ objs' = [objs EXCEPT ![call.oid] = StoreKey(@, call.threads[t].got)]
    /\ call' = [Goes(t, "returned", call.threads[t].got, TRUE) EXCEPT !.last = t]
    /\ ret' = Ret(PyNone)
    /\ UNCHANGED <<keys, vals, handles, trail>>

RaceNext ==
    \E t \in Threads :
        \/ CallOpen(t)
        \/ Line139(t)
        \/ Line143(t)
        \/ Line147(t)
        \/ Line150(t)
        \/ Assign(t)

RaceSpec == RaceInit /\ [][RaceNext]_vars

\* the open handles on the path of the object
OnPath == {h \in DOMAIN handles : /\ handles[h].host = objs[call.oid].remote_host
                                  /\ handles[h].path = objs[call.oid].parts}

\* C19: open() takes no lock between its check and its assignment.  Every thread
\* that found the object closed gets a handle of its own from the registry, whatever
\* the other threads did meanwhile: as many handles are open on the path as were
\* handed out, the object holds the one that was assigned last, and no other.
C19_OpenRace ==
    /\ \A t \in Threads :
          At(t, "assign") => /\ call.threads[t].got.t = "h"
                             /\ call.threads[t].got.id \in OnPath
    /\ Cardinality(OnPath) = call.acquired
    /\ call.last # 0 => objs[call.oid].key = call.threads[call.last].got
    /\ call.last = 0 => ~is_opened(objs[call.oid])

\* two threads passed the check, both have returned, two handles are open on the
\* path, and the object holds the second thread's and not the first's
C19_Witness ==
    /\ \A t \in Threads : At(t, "returned") /\ call.threads[t].passed
    /\ call.acquired = 2 /\ Cardinality(OnPath) = 2
    /\ call.last = 2
    /\ objs[call.oid].key = call.threads[2].got
    /\ call.threads[1].got \in {DynKey(h) : h \in OnPath} \ {objs[call.oid].key}

====
